---- MODULE Spec2Model ----
(***************************************************************************)
(* playing.rs: a command-line controller for MPRIS media players.          *)
(* The model follows src/src/main.rs: `main` parses a command, `run`       *)
(* connects to the bus, runs the favourites workflow or walks the ranking  *)
(* of known players, and `main` turns run's result into an exit code.      *)
(*                                                                         *)
(* Strings are sequences of Unicode code points, so that Rust's byte       *)
(* lengths and byte slices (str::len, &line[..n]) can be told apart from   *)
(* character counts.  Every collaborator call (bus, favourites client) is  *)
(* one step and may fail.                                                  *)
(***************************************************************************)
EXTENDS Integers, Sequences, FiniteSets, TLC

(***************************************************************************)
(* Bounds of the model.                                                    *)
(***************************************************************************)
\* Player instances the bus may hold.
MaxPlayers == 2
\* Largest --spaces-after-icon value tried (the default is 1).
MaxSpaces == 1
\* Largest `seconds` argument tried (whole seconds, from -1 up).
MaxSeconds == 1
\* Length of the long titles tried; the short ones have one letter.
MaxTitleLen == 66
\* Non-ASCII letters that may follow a title's ASCII letters.
MaxWide == 1
\* Arrivals and departures the bus may see while the ranking is walked.
MaxChanges == 2

(***************************************************************************)
(* Program constants.                                                      *)
(***************************************************************************)
MAX_STATUS_LEN == 70

(***************************************************************************)
(* String literals of the program, as code points.                         *)
(***************************************************************************)
S_mpv == <<109, 112, 118>>
S_vlc == <<118, 108, 99>>
S_firefox == <<77, 111, 122, 105, 108, 108, 97, 32, 102, 105, 114, 101, 102, 111, 120>>
S_Spotify == <<83, 112, 111, 116, 105, 102, 121>>
S_chrome == <<99, 104, 114, 111, 109, 101>>
S_Unknown == <<85, 110, 107, 110, 111, 119, 110>>
S_NoMedia == <<78, 111, 32, 109, 101, 100, 105, 97>>
S_added == <<97, 100, 100, 101, 100, 32, 115, 111, 110, 103, 32, 116, 111, 32, 102, 97, 118, 111, 114, 105, 116, 101, 115>>
S_removed == <<114, 101, 109, 111, 118, 101, 100, 32, 115, 111, 110, 103, 32, 102, 114, 111, 109, 32, 102, 97, 118, 111, 114, 105, 116, 101, 115>>
S_sep1 == <<32, 47, 47, 32>>
S_sep2 == <<32, 64, 32>>
S_dots == <<46, 46, 46>>
S_empty == <<>>
Newline == <<10>>
Space == <<32>>

\* Inputs that are not literals of the program: an identity outside the
\* ranking (it differs from "mpv" in case only), letters for metadata.
S_MPV == <<77, 80, 86>>
LetterA == <<97>>
LetterB == <<98>>
LetterC == <<99>>
LetterEAcute == <<233>>
S_url == <<117>>

RECURSIVE Rep(_, _)
Rep(s, n) == IF n <= 0 THEN <<>> ELSE s \o Rep(s, n - 1)

(***************************************************************************)
(* Rust strings are UTF-8: len() counts bytes, and a slice must begin and  *)
(* end on a character boundary or the program panics.                      *)
(***************************************************************************)
Utf8Len(c) == IF c < 128 THEN 1 ELSE IF c < 2048 THEN 2 ELSE IF c < 65536 THEN 3 ELSE 4

RECURSIVE ByteLen(_)
ByteLen(s) == IF s = <<>> THEN 0 ELSE Utf8Len(Head(s)) + ByteLen(Tail(s))

\* is_char_boundary: byte offset n is where some character of s ends.
IsCharBoundary(s, n) == \E i \in 0..Len(s) : ByteLen(SubSeq(s, 1, i)) = n

\* &s[..n] where n is a character boundary.
BytePrefix(s, n) ==
    LET i == CHOOSE j \in 0..Len(s) : ByteLen(SubSeq(s, 1, j)) = n
    IN  SubSeq(s, 1, i)

(***************************************************************************)
(* enum Player, Player::to_str, Player::parse, Player::icon.               *)
(***************************************************************************)
Mpv == [variant |-> "Mpv", s |-> S_empty]
Vlc == [variant |-> "Vlc", s |-> S_empty]
Firefox == [variant |-> "Firefox", s |-> S_empty]
Spotify == [variant |-> "Spotify", s |-> S_empty]
Chrome == [variant |-> "Chrome", s |-> S_empty]
Custom(str) == [variant |-> "Custom", s |-> str]

\* A vlc whose identity string is that of mpv.
to_str_VlcAsMpv(pl) ==
    CASE pl.variant = "Vlc" -> S_mpv
      [] pl.variant = "Mpv" -> S_mpv
      [] pl.variant = "Firefox" -> S_firefox
      [] pl.variant = "Spotify" -> S_Spotify
      [] pl.variant = "Chrome" -> S_chrome
      [] pl.variant = "Custom" -> pl.s

to_str(pl) ==
    CASE pl.variant = "Mpv" -> S_mpv
      [] pl.variant = "Vlc" -> S_vlc
      [] pl.variant = "Firefox" -> S_firefox
      [] pl.variant = "Spotify" -> S_Spotify
      [] pl.variant = "Chrome" -> S_chrome
      [] pl.variant = "Custom" -> pl.s

NoneV == [some |-> FALSE, v |-> S_empty]
Some(x) == [some |-> TRUE, v |-> x]
unwrap_or(o, d) == IF o.some THEN o.v ELSE d

parse(str) ==
    CASE str = S_mpv -> [some |-> TRUE, v |-> Mpv]
      [] str = S_vlc -> [some |-> TRUE, v |-> Vlc]
      [] str = S_firefox -> [some |-> TRUE, v |-> Firefox]
      [] str = S_Spotify -> [some |-> TRUE, v |-> Spotify]
      [] str = S_chrome -> [some |-> TRUE, v |-> Chrome]
      [] OTHER -> [some |-> FALSE, v |-> Mpv]

icon(pl) ==
    CASE pl.variant = "Mpv" -> <<62318>>
      [] pl.variant = "Vlc" -> <<984444>>
      [] pl.variant = "Firefox" -> <<62057>>
      [] pl.variant = "Spotify" -> <<61884>>
      [] pl.variant = "Chrome" -> <<62056>>
      [] pl.variant = "Custom" -> <<61441>>

ranking == <<Custom(S_mpv), Vlc, Firefox, Spotify, Chrome>>

(***************************************************************************)
(* PlayingError and its constructors; run's result.                        *)
(***************************************************************************)
PlayingError(k, c) == [tag |-> "Err", val |-> FALSE, kind |-> k, code |-> c]

\* A bus error filed under the wrong kind.
FromDBusError_KindIO == PlayingError("IO", 2)

\* impl From<DBusError> for PlayingError
FromDBusError == PlayingError("DBus", 2)
\* impl From<std::io::Error> for PlayingError
FromIoError == PlayingError("IO", 3)
\* impl From<Box<dyn Error>> for PlayingError
FromBoxError == PlayingError("IO", 4)
\* PlayingError::from_spotifav
from_spotifav == PlayingError("Spotifav", 5)
\* A failed connection reported with the code of any other bus error.
FinderNewError_Code2 == PlayingError("DBus", 2)

\* the error run builds when PlayerFinder::new() fails
FinderNewError == PlayingError("DBus", 8)

Ok(b) == [tag |-> "Ok", val |-> b, kind |-> "", code |-> 0]
Panicked == [tag |-> "Panic", val |-> FALSE, kind |-> "", code |-> 0]
Pending == [tag |-> "Pending", val |-> FALSE, kind |-> "", code |-> 0]

\* main: the exit status for run's result; a panic ends the process with 101.
ExitCodeOf(r) ==
    CASE r.tag = "Ok" -> IF r.val THEN 0 ELSE 1
      [] r.tag = "Err" -> r.code
      [] r.tag = "Panic" -> 101

(***************************************************************************)
(* The command line (struct Cmd, enum Action, enum Operation).  --mode is  *)
(* parsed and never read, and is left out.                                 *)
(***************************************************************************)
Seconds == (-1)..MaxSeconds
PlainOps == {"Toggle", "Play", "Pause", "Next", "Previous"}
TimedOps == {"Rewind", "Forward", "SeekRelative", "Seek"}

MkCmd(a, o, s, ni, sp, q, po, al) ==
    [action |-> a, op |-> o, seconds |-> s, no_icon |-> ni,
     spaces_after_icon |-> sp, quiet |-> q, poll |-> po, always |-> al]

Cmds ==
    {MkCmd("Operation", o, 1, FALSE, 0, FALSE, FALSE, FALSE) : o \in PlainOps}
    \cup {MkCmd("Operation", o, s, FALSE, 0, FALSE, FALSE, FALSE) :
            o \in TimedOps, s \in Seconds}
    \cup {MkCmd("Player", "-", 0, FALSE, 0, FALSE, FALSE, FALSE)}
    \cup {MkCmd("Url", "-", 0, FALSE, 0, FALSE, FALSE, FALSE)}
    \cup {MkCmd("Status", "-", 0, ni, sp, q, FALSE, FALSE) :
            ni \in BOOLEAN, sp \in 0..MaxSpaces, q \in BOOLEAN}
    \cup {MkCmd("Favorite", "-", 0, FALSE, 0, FALSE, po, al) :
            po \in BOOLEAN, al \in BOOLEAN}

(***************************************************************************)
(* The bus: each instance is a running player with a fixed identity, or is *)
(* not running.  The bus answers a playback-status or metadata read when   *)
(* it is asked: the answer is drawn at the call.                           *)
(***************************************************************************)
Instances == 1..MaxPlayers
Identities == {S_mpv, S_vlc, S_firefox, S_Spotify, S_chrome, S_MPV}
Statuses == {"Playing", "Paused", "Stopped"}
NotRunning == S_empty

\* Instance numbers are labels only (an enumeration lists the players in any
\* order), so the initial buses are taken up to renaming of the instances:
\* the identities are listed in this order.
IdentityOrder == <<NotRunning, S_mpv, S_vlc, S_firefox, S_Spotify, S_chrome, S_MPV>>
IdentityIndex(s) == CHOOSE i \in 1..Len(IdentityOrder) : IdentityOrder[i] = s

Titles ==
    {NoneV} \cup {Some(Rep(LetterA, n) \o Rep(LetterEAcute, m)) :
                    n \in {1, MaxTitleLen}, m \in 0..MaxWide}
Albums == {NoneV, Some(LetterB)}
Artists == {NoneV, Some(<<>>), Some(<<LetterC>>), Some(<<LetterEAcute, LetterC>>)}
Urls == {NoneV, Some(S_url)}
TrackIds == {NoneV, Some(LetterA)}

\* What get_metadata may return: the titles with the other fields absent, the
\* albums and artists under a short title, the url and track id on their own.
Metadatas ==
    [title : Titles, album : {NoneV}, album_artists : {NoneV}, url : {NoneV},
     track_id : {NoneV}]
    \cup [title : {NoneV, Some(LetterA)}, album : Albums, album_artists : Artists,
          url : {NoneV}, track_id : {NoneV}]
    \cup [title : {NoneV}, album : {NoneV}, album_artists : {NoneV}, url : Urls,
          track_id : TrackIds]

VARIABLES
    pc,        \* where the process is
    cmd,       \* the parsed command line
    players,   \* the bus: instance -> identity string, or NotRunning
    rank,      \* `for id in ranking`: index of the current entry
    found,     \* `for p in find_all()`: the matching players still to visit
    log,       \* the collaborator calls made so far, in order
    stdout,    \* standard output, as code points
    stderr,    \* standard error, one tuple per message
    line,      \* the status line as composed, before truncation
    result,    \* what run returned
    exitCode,  \* the process's exit status (-1 while it runs)
    churn      \* the instances that joined and that left the bus during the run

vars == <<pc, cmd, players, rank, found, log, stdout, stderr, line, result,
          exitCode, churn>>

\* What an enumeration lists: the instances that have an identity and have
\* not left.  A handle the program holds keeps its identity after that.
Running == {p \in Instances : players[p] # NotRunning /\ p \notin churn.left}

\* One collaborator call: ret is what a successful call answered (a playback
\* status, the metadata a status line is built from, the url of a Url visit,
\* whether a track reference was exposed), arg the number it was given.
Call(name, p, ok, ret, arg) ==
    [call |-> name, player |-> p, ok |-> ok, ret |-> ret, arg |-> arg]

println(out, s) == out \o s \o Newline
print(out, s) == out \o s

Init ==
    /\ pc = "start"
    /\ cmd \in Cmds
    /\ players \in [Instances -> Identities \cup {NotRunning}]
    /\ \A i, j \in Instances :
          i < j => IdentityIndex(players[i]) <= IdentityIndex(players[j])
    /\ rank = 1
    /\ found = <<>>
    /\ log = <<>>
    /\ stdout = <<>>
    /\ stderr = <<>>
    /\ line = <<>>
    /\ result = Pending
    /\ exitCode = -1
    /\ churn = [arrived |-> {}, left |-> {}]

\* `return r` from run
Return(r) ==
    /\ result' = r
    /\ pc' = "returned"

\* a panic unwinds through main: the process ends with status 101
Panic ==
    /\ result' = Panicked
    /\ pc' = "exited"
    /\ exitCode' = ExitCodeOf(Panicked)
    /\ stderr' = Append(stderr, <<"panic">>)

(***************************************************************************)
(* run, lines 177-184: connect to the bus.                                 *)
(***************************************************************************)
PlayerFinderNew ==
    /\ pc = "start"
    /\ \E ok \in BOOLEAN :
        /\ log' = Append(log, Call("PlayerFinder::new", 0, ok, "", 0))
        /\ IF ok
           THEN /\ pc' = IF cmd.action = "Favorite" THEN "favorite" ELSE "ranking"
                /\ UNCHANGED result
           ELSE Return(FinderNewError)
    /\ UNCHANGED <<cmd, players, churn, rank, found, stdout, stderr, line, exitCode>>

(***************************************************************************)
(* run, lines 186-202: the favourites workflow.                            *)
(***************************************************************************)
\* finder.find_by_name("Spotify").is_ok(): the lookup went through and a
\* running player has that identity.
SpotifyRunning == \E p \in Running : players[p] = S_Spotify

\* A gate that lets every invocation through.
Eligible_Ungated(is_ok, always) == TRUE

\* line 187: find_by_name("Spotify").is_ok() || always
Eligible(is_ok, always) == is_ok \/ always

\* A workflow that polls whether or not it was asked to.
AfterGetClient_AlwaysPoll(poll) == "poll"

\* lines 188-192: the step after get_client
AfterGetClient(poll) == IF poll THEN "poll" ELSE "do_toggle"

FavoriteGate ==
    /\ pc = "favorite"
    /\ \E ok \in BOOLEAN :
        LET is_ok == ok /\ SpotifyRunning IN
        /\ log' = Append(log, Call("find_by_name", 0, ok,
                                   IF is_ok THEN "found" ELSE "notfound", 0))
        /\ IF Eligible(is_ok, cmd.always)
           THEN /\ pc' = "get_client"
                /\ UNCHANGED <<result, stderr>>
           ELSE /\ stderr' = Append(stderr, <<"spotify is not playing">>)
                /\ Return(Ok(FALSE))
    /\ UNCHANGED <<cmd, players, churn, rank, found, stdout, line, exitCode>>

GetClient ==
    /\ pc = "get_client"
    /\ \E ok \in BOOLEAN :
        /\ log' = Append(log, Call("get_client", 0, ok, "", 0))
        /\ IF ok
           THEN /\ pc' = AfterGetClient(cmd.poll)
                /\ UNCHANGED result
           ELSE Return(from_spotifav)
    /\ UNCHANGED <<cmd, players, churn, rank, found, stdout, stderr, line, exitCode>>

Poll ==
    /\ pc = "poll"
    /\ \E ok \in BOOLEAN :
        /\ log' = Append(log, Call("poll", 0, ok, "", 0))
        /\ IF ok
           THEN /\ pc' = "do_toggle"
                /\ UNCHANGED result
           ELSE Return(from_spotifav)
    /\ UNCHANGED <<cmd, players, churn, rank, found, stdout, stderr, line, exitCode>>

DoToggle ==
    /\ pc = "do_toggle"
    /\ \E ok \in BOOLEAN, added \in BOOLEAN :
        /\ log' = Append(log, Call("do_toggle", 0, ok,
                                   IF ~ok THEN "" ELSE IF added THEN "added" ELSE "removed", 0))
        /\ IF ok
           THEN /\ stdout' = println(stdout, IF added THEN S_added ELSE S_removed)
                /\ Return(Ok(TRUE))
           ELSE /\ UNCHANGED stdout
                /\ Return(from_spotifav)
    /\ UNCHANGED <<cmd, players, churn, rank, found, stderr, line, exitCode>>

(***************************************************************************)
(* run, lines 204-210: the ranking loop and the enumeration of the bus.    *)
(***************************************************************************)
\* A comparison that ignores the case of "mpv".
Matches_AnyCase(p, id) ==
    players[p] = to_str(id) \/ (players[p] = S_MPV /\ to_str(id) = S_mpv)

\* line 210: p.identity() == id.to_str()
Matches(p, id) == players[p] = to_str(id)

\* The orders in which an enumeration may list the players of S.
Orders(S) ==
    {s \in [1..Cardinality(S) -> S] : \A i, j \in 1..Cardinality(S) : s[i] = s[j] => i = j}

\* A loop that breaks once an entry's players have been served.
Advance_BreakAfterMatch(rest) ==
    IF rest # <<>>
    THEN /\ found' = rest
         /\ pc' = "visit"
         /\ UNCHANGED rank
    ELSE /\ found' = <<>>
         /\ rank' = rank + 1
         /\ pc' = IF rank + 1 > Len(ranking) \/ pc # "ranking"
                  THEN "after_loop" ELSE "ranking"

\* Loop control: go on with the players left for this entry, else with the
\* next entry of the ranking, else leave the loop.
Advance(rest) ==
    IF rest # <<>>
    THEN /\ found' = rest
         /\ pc' = "visit"
         /\ UNCHANGED rank
    ELSE /\ found' = <<>>
         /\ rank' = rank + 1
         /\ pc' = IF rank + 1 > Len(ranking) THEN "after_loop" ELSE "ranking"

\* line 210: of the players listed, those whose identity is the entry's
MatchesOf(order, id) ==
    LET IsMatch(p) == Matches(p, id)
    IN  SelectSeq(order, IsMatch)

\* line 208: finder.find_all().unwrap() lists the running players in some
\* order; the loop body runs for those whose identity is the current entry's
\* (line 210), in the order the bus listed them.
FindAll ==
    /\ pc = "ranking"
    /\ \E ok \in BOOLEAN :
        /\ log' = Append(log, Call("find_all", 0, ok, "", 0))
        /\ IF ok
           THEN /\ \E order \in Orders(Running) :
                       Advance(MatchesOf(order, ranking[rank]))
                /\ UNCHANGED <<result, exitCode, stderr>>
           ELSE /\ Panic
                /\ UNCHANGED <<rank, found>>
    /\ UNCHANGED <<cmd, players, churn, stdout, line>>

(***************************************************************************)
(* run, lines 212-240: Action::Operation, one transport call per match.    *)
(***************************************************************************)
\* lines 220-234: the bus method each single-call operation invokes
TransportCall(op) ==
    CASE op = "Play" -> "play"
      [] op = "Pause" -> "pause"
      [] op = "Next" -> "next"
      [] op = "Previous" -> "previous"
      [] op = "Rewind" -> "seek_backwards"
      [] op = "Forward" -> "seek_forwards"
      [] op = "SeekRelative" -> "seek"

\* lines 226-233: its argument; SeekRelative scales the seconds by 1 << 6
TransportArg(op, seconds) ==
    CASE op \in {"Rewind", "Forward"} -> seconds
      [] op = "SeekRelative" -> seconds * 64
      [] OTHER -> 0

\* lines 226, 230, 237: Duration::from_secs_f32 panics on a negative value
\* (and on a non-finite or too large one), before the call it is an argument of
NeedsDuration(op) == op \in {"Rewind", "Forward", "Seek"}
DurationPanics(op, seconds) == NeedsDuration(op) /\ seconds < 0

\* lines 220-234
OpTransport ==
    /\ pc = "visit"
    /\ cmd.action = "Operation"
    /\ cmd.op \notin {"Toggle", "Seek"}
    /\ IF DurationPanics(cmd.op, cmd.seconds)
       THEN /\ Panic
            /\ UNCHANGED <<log, rank, found>>
       ELSE /\ \E ok \in BOOLEAN :
                /\ log' = Append(log, Call(TransportCall(cmd.op), Head(found), ok, "",
                                           TransportArg(cmd.op, cmd.seconds)))
                /\ IF ok
                   THEN /\ Advance(Tail(found))
                        /\ UNCHANGED result
                   ELSE /\ Return(FromDBusError)
                        /\ UNCHANGED <<rank, found>>
            /\ UNCHANGED <<stderr, exitCode>>
    /\ UNCHANGED <<cmd, players, churn, stdout, line>>

\* line 214: p.get_playback_status().unwrap()
OpToggleRead ==
    /\ pc = "visit"
    /\ cmd.action = "Operation"
    /\ cmd.op = "Toggle"
    /\ \E ok \in BOOLEAN :
        IF ok
        THEN /\ \E st \in Statuses :
                    log' = Append(log, Call("get_playback_status", Head(found), TRUE, st, 0))
             /\ pc' = "toggle_cmd"
             /\ UNCHANGED <<result, exitCode, stderr>>
        ELSE /\ log' = Append(log, Call("get_playback_status", Head(found), FALSE, "", 0))
             /\ Panic
    /\ UNCHANGED <<cmd, players, churn, rank, found, stdout, line>>

\* A toggle that pauses only what is not stopped.
ToggleCall_PauseUnlessStopped(status) == IF status = "Stopped" THEN "play" ELSE "pause"

\* lines 214-218: pause a playing player, play any other
ToggleCall(status) == IF status = "Playing" THEN "pause" ELSE "play"

OpToggleCmd ==
    /\ pc = "toggle_cmd"
    /\ \E ok \in BOOLEAN :
        /\ log' = Append(log, Call(ToggleCall(log[Len(log)].ret), Head(found), ok, "", 0))
        /\ IF ok
           THEN /\ Advance(Tail(found))
                /\ UNCHANGED result
           ELSE /\ Return(FromDBusError)
                /\ UNCHANGED <<rank, found>>
    /\ UNCHANGED <<cmd, players, churn, stdout, stderr, line, exitCode>>

\* line 236: p.get_metadata()?.track_id()
OpSeekMeta ==
    /\ pc = "visit"
    /\ cmd.action = "Operation"
    /\ cmd.op = "Seek"
    /\ \E ok \in BOOLEAN :
        IF ok
        THEN /\ \E m \in Metadatas :
                /\ log' = Append(log, Call("get_metadata", Head(found), TRUE,
                                           IF m.track_id.some THEN "track" ELSE "notrack", 0))
                /\ IF m.track_id.some
                   THEN /\ pc' = "set_position"
                        /\ UNCHANGED <<rank, found>>
                   ELSE Advance(Tail(found))
             /\ UNCHANGED result
        ELSE /\ log' = Append(log, Call("get_metadata", Head(found), FALSE, "", 0))
             /\ Return(FromDBusError)
             /\ UNCHANGED <<rank, found>>
    /\ UNCHANGED <<cmd, players, churn, stdout, stderr, line, exitCode>>

\* line 237: p.set_position(id, seconds)?
OpSetPosition ==
    /\ pc = "set_position"
    /\ IF DurationPanics(cmd.op, cmd.seconds)
       THEN /\ Panic
            /\ UNCHANGED <<log, rank, found>>
       ELSE /\ \E ok \in BOOLEAN :
                /\ log' = Append(log, Call("set_position", Head(found), ok, "", cmd.seconds))
                /\ IF ok
                   THEN /\ Advance(Tail(found))
                        /\ UNCHANGED result
                   ELSE /\ Return(FromDBusError)
                        /\ UNCHANGED <<rank, found>>
            /\ UNCHANGED <<stderr, exitCode>>
    /\ UNCHANGED <<cmd, players, churn, stdout, line>>

(***************************************************************************)
(* run, lines 241-274: Action::Status.                                     *)
(***************************************************************************)
\* A quiet status that reports success when a player is playing.
QuietFound_True == Ok(TRUE)

\* line 245: what run returns when a player is playing and quiet is set
QuietFound == Ok(FALSE)

\* line 243: p.get_playback_status()? == Playing, and the quiet return
StatusRead ==
    /\ pc = "visit"
    /\ cmd.action = "Status"
    /\ \E ok \in BOOLEAN :
        IF ok
        THEN \E st \in Statuses :
                /\ log' = Append(log, Call("get_playback_status", Head(found), TRUE, st, 0))
                /\ IF st = "Playing"
                   THEN IF cmd.quiet
                        THEN /\ Return(QuietFound)
                             /\ UNCHANGED <<rank, found>>
                        ELSE /\ pc' = "status_meta"
                             /\ UNCHANGED <<rank, found, result>>
                   ELSE /\ Advance(Tail(found))
                        /\ UNCHANGED result
        ELSE /\ log' = Append(log, Call("get_playback_status", Head(found), FALSE, "", 0))
             /\ Return(FromDBusError)
             /\ UNCHANGED <<rank, found>>
    /\ UNCHANGED <<cmd, players, churn, stdout, stderr, line, exitCode>>

\* An artist taken from the end of the list.
ArtistOf_Last(m) ==
    LET artists == unwrap_or(m.album_artists, <<>>)
    IN  IF artists = <<>> THEN S_Unknown ELSE artists[Len(artists)]

\* lines 248-253
TitleOf(m) == unwrap_or(m.title, S_Unknown)
AlbumOf(m) == unwrap_or(m.album, S_Unknown)
ArtistOf(m) ==
    LET artists == unwrap_or(m.album_artists, <<>>)
    IN  IF artists = <<>> THEN S_Unknown ELSE artists[1]

\* lines 255-264
IconPrefix(identity, no_icon, spaces) ==
    LET pl == parse(identity)
        ic == IF pl.some THEN icon(pl.v) ELSE S_empty
    IN  IF no_icon THEN S_empty ELSE ic \o Rep(Space, spaces)

\* line 266
ComposeLine(prefix, m) ==
    prefix \o TitleOf(m) \o S_sep1 \o AlbumOf(m) \o S_sep2 \o ArtistOf(m)

\* line 267: line.len() > MAX_STATUS_LEN, in bytes
TooLong(l) == ByteLen(l) > MAX_STATUS_LEN

\* line 268: &line[..MAX_STATUS_LEN-3] panics off a character boundary
SlicePanics(l) == TooLong(l) /\ ~IsCharBoundary(l, MAX_STATUS_LEN - 3)

\* lines 267-271: what is printed when the slice does not panic
EmittedLine(l) ==
    IF TooLong(l) THEN BytePrefix(l, MAX_STATUS_LEN - 3) \o S_dots ELSE l

\* lines 247-272
StatusLine ==
    /\ pc = "status_meta"
    /\ \E ok \in BOOLEAN :
        IF ok
        THEN \E m \in Metadatas :
                LET l == ComposeLine(IconPrefix(players[Head(found)], cmd.no_icon,
                                                cmd.spaces_after_icon), m)
                IN  /\ log' = Append(log, Call("get_metadata", Head(found), TRUE, m, 0))
                    /\ line' = l
                    /\ IF SlicePanics(l)
                       THEN /\ Panic
                            /\ UNCHANGED stdout
                       ELSE /\ stdout' = println(stdout, EmittedLine(l))
                            /\ Return(Ok(TRUE))
                            /\ UNCHANGED <<stderr, exitCode>>
        ELSE /\ log' = Append(log, Call("get_metadata", Head(found), FALSE, "", 0))
             /\ Return(FromDBusError)
             /\ UNCHANGED <<stdout, stderr, line, exitCode>>
    /\ UNCHANGED <<cmd, players, churn, rank, found>>

(***************************************************************************)
(* run, lines 276-284: Action::Url and Action::Player.                     *)
(***************************************************************************)
UrlVisit ==
    /\ pc = "visit"
    /\ cmd.action = "Url"
    /\ IF parse(players[Head(found)]).some
       THEN \E ok \in BOOLEAN :
               IF ok
               THEN \E m \in Metadatas :
                       /\ log' = Append(log, Call("get_metadata", Head(found), TRUE, m.url, 0))
                       /\ stdout' = print(stdout, unwrap_or(m.url, S_empty))
                       /\ Advance(Tail(found))
                       /\ UNCHANGED result
               ELSE /\ log' = Append(log, Call("get_metadata", Head(found), FALSE, "", 0))
                    /\ Return(FromDBusError)
                    /\ UNCHANGED <<rank, found, stdout>>
       ELSE /\ Advance(Tail(found))
            /\ UNCHANGED <<log, stdout, result>>
    /\ UNCHANGED <<cmd, players, churn, stderr, line, exitCode>>

\* A listing that also starts every player it lists.
PlayerVisit_Playing ==
    /\ pc = "visit"
    /\ cmd.action = "Player"
    /\ stdout' = println(stdout, players[Head(found)])
    /\ log' = Append(log, Call("play", Head(found), TRUE, "", 0))
    /\ Advance(Tail(found))
    /\ UNCHANGED <<cmd, players, churn, stderr, line, result, exitCode>>

\* lines 282-284: p.identity() is held by the player handle, no call is made
PlayerVisit ==
    /\ pc = "visit"
    /\ cmd.action = "Player"
    /\ stdout' = println(stdout, players[Head(found)])
    /\ Advance(Tail(found))
    /\ UNCHANGED <<cmd, players, churn, log, stderr, line, result, exitCode>>

(***************************************************************************)
(* run, lines 290-297: after the loop.                                     *)
(***************************************************************************)
\* An ending that ignores quiet.
AfterLoopResult_IgnoreQuiet(action, quiet) == Ok(TRUE)

\* lines 290-297: run's result once the loop is over
AfterLoopResult(action, quiet) ==
    IF action = "Status" /\ quiet THEN Ok(FALSE) ELSE Ok(TRUE)

AfterLoop ==
    /\ pc = "after_loop"
    /\ stdout' = IF cmd.action = "Status" /\ ~cmd.quiet
                 THEN println(stdout, S_NoMedia)
                 ELSE stdout
    /\ Return(AfterLoopResult(cmd.action, cmd.quiet))
    /\ UNCHANGED <<cmd, players, churn, rank, found, log, stderr, line, exitCode>>

(***************************************************************************)
(* main, lines 52-58: exit with the status of run's result.                *)
(***************************************************************************)
MainExit ==
    /\ pc = "returned"
    /\ pc' = "exited"
    /\ exitCode' = ExitCodeOf(result)
    /\ stderr' = IF result.tag = "Err"
                 THEN Append(stderr, <<"error", result.kind>>)
                 ELSE stderr
    /\ UNCHANGED <<cmd, players, churn, rank, found, log, stdout, line, result>>

Next ==
    \/ PlayerFinderNew
    \/ FavoriteGate
    \/ GetClient
    \/ Poll
    \/ DoToggle
    \/ FindAll
    \/ OpTransport
    \/ OpToggleRead
    \/ OpToggleCmd
    \/ OpSeekMeta
    \/ OpSetPosition
    \/ StatusRead
    \/ StatusLine
    \/ UrlVisit
    \/ PlayerVisit
    \/ AfterLoop
    \/ MainExit

Spec == Init /\ [][Next]_vars

(***************************************************************************)
(* The same program on a bus that changes under it.  Each pass of the      *)
(* outer loop asks the bus anew (line 208), so players that join or leave  *)
(* between two passes are seen by the later one.  An instance has one      *)
(* identity for as long as it lives, and an instance that left does not    *)
(* come back: a player started again is another instance.  The program    *)
(* looks at the bus only when it enumerates, so a change, whenever it       *)
(* happens, takes effect at the next enumeration and is made a step just    *)
(* before one; changes before the first are initial states.                 *)
(***************************************************************************)
Changes == Cardinality(churn.arrived) + Cardinality(churn.left)
BeforeEnumeration == pc = "ranking"

\* Instance numbers are labels only: a player that joins takes the first one
\* that is free.
FirstFree(p) == players[p] = NotRunning /\ \A q \in 1..(p - 1) : players[q] # NotRunning

BusChange ==
    /\ BeforeEnumeration
    /\ Changes < MaxChanges
    /\ \/ \E p \in Instances, id \in Identities :
            /\ FirstFree(p)
            /\ players' = [players EXCEPT ![p] = id]
            /\ churn' = [churn EXCEPT !.arrived = @ \cup {p}]
       \/ \E p \in Running :
            /\ churn' = [churn EXCEPT !.left = @ \cup {p}]
            /\ UNCHANGED players
    /\ UNCHANGED <<pc, cmd, rank, found, log, stdout, stderr, line, result, exitCode>>

\* The broadcasts: Action::Operation with every operation.  The seconds decide
\* the argument of a call and whether its conversion panics, not which players
\* are served: one value that is accepted and one that is rejected are tried.
InitDyn == Init /\ cmd.action = "Operation" /\ cmd.seconds \in {-1, 1}

NextDyn ==
    \/ PlayerFinderNew
    \/ FindAll
    \/ OpTransport
    \/ OpToggleRead
    \/ OpToggleCmd
    \/ OpSeekMeta
    \/ OpSetPosition
    \/ AfterLoop
    \/ MainExit
    \/ BusChange

SpecDyn == InitDyn /\ [][NextDyn]_vars

(***************************************************************************)
(* Vocabulary of the properties.                                           *)
(***************************************************************************)
Exited == pc = "exited"
NoFailure == \A i \in 1..Len(log) : log[i].ok
BusInitOk == Len(log) > 0 /\ log[1].ok

\* The canonical strings of the ranking, as the specification lists them.
RankedStrings == {S_mpv, S_vlc, S_firefox, S_Spotify, S_chrome}
RankedRunning == {p \in Instances : players[p] \in RankedStrings}

\* How many calls of the given names player p has received.
CallsOn(p, names) ==
    Cardinality({i \in 1..Len(log) : log[i].player = p /\ log[i].call \in names})

TransportCalls ==
    {"play", "pause", "next", "previous", "seek_backwards", "seek_forwards",
     "seek", "set_position"}

\* The transport calls that carry out an operation.
RequestedCalls(op) ==
    CASE op = "Toggle" -> {"play", "pause"}
      [] op = "Play" -> {"play"}
      [] op = "Pause" -> {"pause"}
      [] op = "Next" -> {"next"}
      [] op = "Previous" -> {"previous"}
      [] op = "Rewind" -> {"seek_backwards"}
      [] op = "Forward" -> {"seek_forwards"}
      [] op = "SeekRelative" -> {"seek"}
      [] op = "Seek" -> {"set_position"}

\* Player p's metadata was read and exposed no track reference.
NoTrackReference(p) ==
    \E i \in 1..Len(log) :
        log[i].player = p /\ log[i].call = "get_metadata" /\ log[i].ret = "notrack"

BroadcastDone == Exited /\ cmd.action = "Operation" /\ NoFailure

(***************************************************************************)
(* C1.  Broadcast completeness.                                            *)
(***************************************************************************)
\* The seconds argument is one Duration::from_secs_f32 panics on.
SecondsRejected == cmd.op \in {"Rewind", "Forward", "Seek"} /\ cmd.seconds < 0

\* C1 (as claimed, read for the seconds arguments the program accepts): when no
\* collaborator call fails, an Operation invokes the requested transport
\* operation exactly once on every running player with a ranked identity and
\* never on any other player, and the loop runs to its end.
C1_BroadcastExactlyOnce ==
    (BroadcastDone /\ ~SecondsRejected) =>
        /\ result = Ok(TRUE)
        /\ \A p \in Instances :
            IF p \in RankedRunning
            THEN /\ CallsOn(p, RequestedCalls(cmd.op)) = 1
                 /\ CallsOn(p, TransportCalls) = 1
            ELSE CallsOn(p, TransportCalls) = 0

\* Seek has nothing to send player p: its metadata exposes no track reference.
SeekSkips(p) == cmd.op = "Seek" /\ NoTrackReference(p)

\* C1 (amended): as claimed, with two exceptions.  Seek issues no transport
\* call to a matched player whose metadata exposes no track reference.  Rewind,
\* Forward and Seek with a negative seconds argument issue no transport call
\* at all: the process panics at the first matched player that was due one.
C1_BroadcastOnceWithExceptions ==
    BroadcastDone =>
        IF SecondsRejected
        THEN /\ \A p \in Instances : CallsOn(p, TransportCalls) = 0
             /\ IF \A p \in RankedRunning : SeekSkips(p)
                THEN result = Ok(TRUE)
                ELSE result = Panicked
        ELSE /\ result = Ok(TRUE)
             /\ \A p \in Instances :
                 IF p \in RankedRunning /\ ~SeekSkips(p)
                 THEN /\ CallsOn(p, RequestedCalls(cmd.op)) = 1
                      /\ CallsOn(p, TransportCalls) = 1
                 ELSE CallsOn(p, TransportCalls) = 0

\* mpv and Spotify are running, Play was broadcast, each received one play.
C1_Witness ==
    /\ BroadcastDone
    /\ cmd.op = "Play"
    /\ \E p, q \in Instances :
        /\ players[p] = S_mpv
        /\ players[q] = S_Spotify
        /\ CallsOn(p, {"play"}) = 1
        /\ CallsOn(q, {"play"}) = 1

(***************************************************************************)
(* C2.  First-match-wins for Status.                                       *)
(***************************************************************************)
\* The index of the first successful status read that answered Playing, or 0.
FirstPlaying ==
    LET hits == {i \in 1..Len(log) :
                    log[i].call = "get_playback_status" /\ log[i].ok
                    /\ log[i].ret = "Playing"}
    IN  IF hits = {} THEN 0 ELSE CHOOSE i \in hits : \A j \in hits : i <= j

\* C2 (as claimed): with quiet unset, once a pair answers Playing the status
\* line is built from that pair (its metadata is the next and last call made),
\* every pair read before it was not playing, and run returns true.
C2_FirstPlayingWins ==
    (Exited /\ cmd.action = "Status" /\ ~cmd.quiet /\ NoFailure /\ FirstPlaying > 0) =>
        /\ Len(log) = FirstPlaying + 1
        /\ log[Len(log)].call = "get_metadata"
        /\ log[Len(log)].player = log[FirstPlaying].player
        /\ line # <<>>
        /\ result = Ok(TRUE)
        /\ exitCode = 0

(***************************************************************************)
(* C3.  No playing player.                                                 *)
(***************************************************************************)
StatusExhausted ==
    Exited /\ cmd.action = "Status" /\ NoFailure /\ FirstPlaying = 0

\* C3: when Status finds no playing pair in the whole sequence, the output is
\* the one line "No media" with result true (exit 0) if quiet is unset, and no
\* output with result false (exit 1) if quiet is set.
C3_NoPlayingPlayer ==
    StatusExhausted =>
        /\ \A p \in RankedRunning : CallsOn(p, {"get_playback_status"}) = 1
        /\ IF cmd.quiet
           THEN stdout = <<>> /\ result = Ok(FALSE) /\ exitCode = 1
           ELSE stdout = S_NoMedia \o Newline /\ result = Ok(TRUE) /\ exitCode = 0

\* A quiet Status that read two players, neither playing.
C3_Witness ==
    /\ StatusExhausted
    /\ cmd.quiet
    /\ Cardinality(RankedRunning) = 2
    /\ exitCode = 1

(***************************************************************************)
(* C4.  Error kinds and exit codes.                                        *)
(***************************************************************************)
\* The exit code the specification fixes for a kind (Bus is the program's
\* DBus, Favorites its Spotifav).
SpecCodeOfKind(kind) ==
    CASE kind = "DBus" -> 2
      [] kind = "IO" -> 3
      [] kind = "Spotifav" -> 5

\* C4 (as claimed): the exit code is a function of the error's kind alone.
C4_CodeFollowsKind ==
    result.tag = "Err" => result.code = SpecCodeOfKind(result.kind)

KindOfCode(code) ==
    CASE code \in {2, 8} -> "DBus"
      [] code \in {3, 4} -> "IO"
      [] code = 5 -> "Spotifav"

\* C4 (amended): an error that ends run is (DBus, 8), (DBus, 2) or
\* (Spotifav, 5), the process exits with the error's code and names its kind
\* on standard error, and the kind follows from the code (8, 2: DBus; 3, 4: IO;
\* 5: Spotifav), not the code from the kind.
C4_KindFollowsCode ==
    /\ \A e \in {FromDBusError, FromIoError, FromBoxError, from_spotifav, FinderNewError} :
          e.kind = KindOfCode(e.code)
    /\ result.tag = "Err" =>
          /\ result.code \in {8, 2, 5}
          /\ result.kind = KindOfCode(result.code)
          /\ Exited => /\ exitCode = result.code
                       /\ stderr = << <<"error", result.kind>> >>

\* A failed bus connection: kind DBus with exit code 8.
C4_Witness ==
    /\ Exited
    /\ result.tag = "Err"
    /\ result.kind = "DBus"
    /\ exitCode = 8

(***************************************************************************)
(* C5.  Fail-fast broadcast.                                               *)
(***************************************************************************)
\* C5 (as claimed): when a call made for a matched pair of a broadcast fails,
\* Toggle's status read included, the invocation ends at once with a Bus
\* error, exit code 2.
C5_FailFastBusError ==
    (Exited /\ cmd.action = "Operation"
        /\ \E i \in 1..Len(log) : log[i].player # 0 /\ ~log[i].ok) =>
        /\ ~log[Len(log)].ok
        /\ \A i \in 1..(Len(log) - 1) : log[i].ok
        /\ result = PlayingError("DBus", 2)
        /\ exitCode = 2

(***************************************************************************)
(* C6.  A failed enumeration.                                              *)
(***************************************************************************)
\* C6 (as claimed): a failed enumeration of the running players ends the
\* invocation with a Bus error, exit code 2, before any player was queried or
\* commanded and before any output.
C6_EnumerationFailureIsBusError ==
    (Exited /\ \E i \in 1..Len(log) : log[i].call = "find_all" /\ ~log[i].ok) =>
        /\ exitCode = 2
        /\ \A i \in 1..Len(log) : log[i].player = 0
        /\ stdout = <<>>

(***************************************************************************)
(* C7.  Favorites eligibility gate.                                        *)
(***************************************************************************)
FavoritesCalls == {"get_client", "poll", "do_toggle"}
CalledFavorites(names) == \E i \in 1..Len(log) : log[i].call \in names
NoSpotifyRunning == \A p \in Instances : players[p] # S_Spotify

\* C7: for Favorite, with no Spotify player running and always unset the
\* favourites client is never called, the not-playing message is reported and
\* the result is false; with always set get_client is called whether or not
\* Spotify is running.
C7_FavoritesGate ==
    cmd.action = "Favorite" =>
        /\ (NoSpotifyRunning /\ ~cmd.always) =>
              /\ ~CalledFavorites(FavoritesCalls)
              /\ (Exited /\ BusInitOk) =>
                    /\ result = Ok(FALSE)
                    /\ exitCode = 1
                    /\ stderr = << <<"spotify is not playing">> >>
                    /\ stdout = <<>>
        /\ (cmd.always /\ BusInitOk /\ pc \notin {"favorite", "get_client"}) =>
              CalledFavorites({"get_client"})

\* Favorite without --always and without a Spotify player: refused.
C7_Witness ==
    /\ Exited
    /\ cmd.action = "Favorite"
    /\ ~cmd.always
    /\ NoSpotifyRunning
    /\ Running # {}
    /\ BusInitOk
    /\ exitCode = 1

(***************************************************************************)
(* C8.  Favorites workflow ordering.                                       *)
(***************************************************************************)
IsFavoritesCall(e) == e.call \in FavoritesCalls
FavoritesLog == SelectSeq(log, IsFavoritesCall)
ExpectedFavorites(poll) ==
    IF poll THEN <<"get_client", "poll", "do_toggle">> ELSE <<"get_client", "do_toggle">>

\* C8: the favourites calls are made in the order get_client, poll (if and only
\* if poll is set), toggle, each at most once; a failed call is the last one
\* and ends the invocation with a Favorites error, exit code 5.
C8_FavoritesOrder ==
    cmd.action = "Favorite" =>
        LET fav == FavoritesLog
            want == ExpectedFavorites(cmd.poll)
        IN  /\ Len(fav) <= Len(want)
            /\ \A i \in 1..Len(fav) : fav[i].call = want[i]
            /\ \A i \in 1..(Len(fav) - 1) : fav[i].ok
            /\ (Len(fav) > 0 /\ ~fav[Len(fav)].ok) =>
                  /\ pc \in {"returned", "exited"}
                  /\ result = PlayingError("Spotifav", 5)
                  /\ Exited => exitCode = 5
            /\ (Exited /\ result = Ok(TRUE)) =>
                  /\ Len(fav) = Len(want)
                  /\ exitCode = 0

\* poll was asked for and failed: toggle was never called, exit code 5.
C8_Witness ==
    /\ Exited
    /\ cmd.action = "Favorite"
    /\ cmd.poll
    /\ Len(FavoritesLog) = 2
    /\ FavoritesLog[1].ok
    /\ FavoritesLog[2].call = "poll"
    /\ ~FavoritesLog[2].ok
    /\ exitCode = 5

(***************************************************************************)
(* C9.  Quiet short-circuit.                                               *)
(***************************************************************************)
\* C9: for Status with quiet set, the read that finds a playing pair is the
\* last call made: run returns false (exit 1), nothing is written to standard
\* output, and no metadata is read.
C9_QuietShortCircuit ==
    (cmd.action = "Status" /\ cmd.quiet /\ FirstPlaying > 0) =>
        /\ Len(log) = FirstPlaying
        /\ pc \in {"returned", "exited"}
        /\ result = Ok(FALSE)
        /\ stdout = <<>>
        /\ line = <<>>
        /\ \A i \in 1..Len(log) : log[i].call # "get_metadata"
        /\ Exited => exitCode = 1

\* A quiet Status whose second pair was the playing one.
C9_Witness ==
    /\ Exited
    /\ cmd.action = "Status"
    /\ cmd.quiet
    /\ FirstPlaying > 0
    /\ \E i \in 1..(FirstPlaying - 1) : log[i].call = "get_playback_status"
    /\ exitCode = 1

(***************************************************************************)
(* C10.  Truncation of the status line.                                    *)
(***************************************************************************)
\* C10 (as claimed): a composed line of more than 70 characters is emitted as
\* its first 67 characters followed by "...", any other line unmodified; the
\* emitted line never exceeds 70 characters and the step never fails.
C10_Truncation ==
    (Exited /\ cmd.action = "Status" /\ line # <<>>) =>
        LET emitted == IF Len(line) > 70 THEN SubSeq(line, 1, 67) \o S_dots ELSE line
        IN  /\ result # Panicked
            /\ stdout = emitted \o Newline
            /\ Len(emitted) <= 70

(***************************************************************************)
(* C11.  Metadata defaulting.                                              *)
(***************************************************************************)
\* The status line was composed: the last call is the successful metadata read.
StatusComposed ==
    /\ cmd.action = "Status"
    /\ Len(log) > 0
    /\ log[Len(log)].call = "get_metadata"
    /\ log[Len(log)].ok

StatusMeta == log[Len(log)].ret
S_AllUnknown == S_Unknown \o S_sep1 \o S_Unknown \o S_sep2 \o S_Unknown

\* C11: the composed status line is the icon prefix, then the metadata title
\* or "Unknown" if absent, " // ", the album or "Unknown" if absent, " @ ", and
\* the first element of the artists list or "Unknown" if the list is absent or
\* empty; with no title, no album and no artist the line printed is
\* "Unknown // Unknown @ Unknown" after the icon prefix.
C11_MetadataDefaulting ==
    StatusComposed =>
        LET m == StatusMeta
            prefix == IconPrefix(players[log[Len(log)].player], cmd.no_icon,
                                 cmd.spaces_after_icon)
            title == IF m.title.some THEN m.title.v ELSE S_Unknown
            album == IF m.album.some THEN m.album.v ELSE S_Unknown
            artist == IF m.album_artists.some /\ Len(m.album_artists.v) > 0
                      THEN Head(m.album_artists.v) ELSE S_Unknown
        IN  /\ line = prefix \o title \o S_sep1 \o album \o S_sep2 \o artist
            /\ (~m.title.some /\ ~m.album.some /\ artist = S_Unknown) =>
                  /\ line = prefix \o S_AllUnknown
                  /\ stdout = prefix \o S_AllUnknown \o Newline
                  /\ result = Ok(TRUE)

\* A playing vlc with an empty artists list and nothing else: all defaults.
C11_Witness ==
    /\ Exited
    /\ StatusComposed
    /\ players[log[Len(log)].player] = S_vlc
    /\ ~cmd.no_icon
    /\ StatusMeta.album_artists = Some(<<>>)
    /\ ~StatusMeta.title.some
    /\ stdout = icon(Vlc) \o Rep(Space, cmd.spaces_after_icon) \o S_AllUnknown \o Newline

\* A line whose artist is the first of two.
C11_WitnessFirstArtist ==
    /\ Exited
    /\ StatusComposed
    /\ StatusMeta.album_artists = Some(<<LetterEAcute, LetterC>>)
    /\ StatusMeta.album = Some(LetterB)
    /\ cmd.no_icon
    /\ line = TitleOf(StatusMeta) \o S_sep1 \o LetterB \o S_sep2 \o LetterEAcute

(***************************************************************************)
(* C12.  Url output.                                                       *)
(***************************************************************************)
\* One line per metadata read of the log from entry i on: the url it answered,
\* or nothing if it answered none, and a line end.
RECURSIVE UrlLines(_)
UrlLines(i) ==
    IF i > Len(log)
    THEN <<>>
    ELSE (IF log[i].call = "get_metadata"
          THEN unwrap_or(log[i].ret, S_empty) \o Newline
          ELSE <<>>) \o UrlLines(i + 1)

\* C12 (as claimed): when no call fails, Url reads the metadata of every
\* running player with a ranked identity exactly once, and standard output is
\* one line per such player, in the order visited, holding its url (an empty
\* line if it has none).
C12_UrlOneLinePerPair ==
    (Exited /\ cmd.action = "Url" /\ NoFailure) =>
        /\ result = Ok(TRUE)
        /\ \A p \in Instances :
              CallsOn(p, {"get_metadata"}) = IF p \in RankedRunning THEN 1 ELSE 0
        /\ stdout = UrlLines(1)

(***************************************************************************)
(* C13.  Resolver order.                                                   *)
(***************************************************************************)
\* The canonical strings in ranking order, as the specification lists them.
RankedOrder == <<S_mpv, S_vlc, S_firefox, S_Spotify, S_chrome>>

\* From ranking position r on: one line per running player whose identity is
\* the string at that position.
RECURSIVE PlayerLines(_)
PlayerLines(r) ==
    IF r > Len(RankedOrder)
    THEN <<>>
    ELSE Rep(RankedOrder[r] \o Newline,
             Cardinality({p \in Instances : players[p] = RankedOrder[r]}))
         \o PlayerLines(r + 1)

IsPrefix(s, t) == Len(s) <= Len(t) /\ s = SubSeq(t, 1, Len(s))

\* C13: the Player action queries and commands no player; what it has printed
\* is at every moment a prefix of the lines of the running players with a
\* ranked identity (compared exactly), one identity per line in ranking order,
\* and it is all of these lines, with result true, once it ends without a
\* failed call.  A player with an unranked identity is never listed.
C13_ResolverOrder ==
    cmd.action = "Player" =>
        /\ IsPrefix(stdout, PlayerLines(1))
        /\ \A i \in 1..Len(log) : log[i].player = 0
        /\ (Exited /\ NoFailure) =>
              /\ stdout = PlayerLines(1)
              /\ result = Ok(TRUE)
              /\ exitCode = 0

\* vlc and chrome are running: vlc is listed first, chrome second.
C13_Witness ==
    /\ Exited
    /\ cmd.action = "Player"
    /\ NoFailure
    /\ \E p, q \in Instances : players[p] = S_chrome /\ players[q] = S_vlc
    /\ stdout = S_vlc \o Newline \o S_chrome \o Newline

(***************************************************************************)
(* C14.  Toggle is decided per player.                                     *)
(***************************************************************************)
\* The status player p answered when Toggle read it (its one successful read).
StatusReadOf(p) ==
    LET i == CHOOSE j \in 1..Len(log) :
                log[j].player = p /\ log[j].call = "get_playback_status" /\ log[j].ok
    IN  log[i].ret

\* C14: during a Toggle every play or pause call directly follows a status
\* read of the same player and is pause if that read answered Playing, play
\* otherwise; after a Toggle broadcast without a failed call every matched
\* player was read once and, if it was Playing, received one pause and no
\* play, and if it was Paused or Stopped, one play and no pause; no other
\* player received a call.
C14_TogglePerPlayer ==
    (cmd.action = "Operation" /\ cmd.op = "Toggle") =>
        /\ \A i \in 1..Len(log) :
              log[i].call \in TransportCalls =>
                /\ i > 1
                /\ log[i - 1].call = "get_playback_status"
                /\ log[i - 1].ok
                /\ log[i - 1].player = log[i].player
                /\ log[i].call = IF log[i - 1].ret = "Playing" THEN "pause" ELSE "play"
        /\ BroadcastDone =>
              /\ result = Ok(TRUE)
              /\ \A p \in Instances :
                    IF p \in RankedRunning
                    THEN /\ CallsOn(p, {"get_playback_status"}) = 1
                         /\ CallsOn(p, TransportCalls) = 1
                         /\ IF StatusReadOf(p) = "Playing"
                            THEN CallsOn(p, {"pause"}) = 1 /\ CallsOn(p, {"play"}) = 0
                            ELSE CallsOn(p, {"play"}) = 1 /\ CallsOn(p, {"pause"}) = 0
                    ELSE /\ CallsOn(p, {"get_playback_status"}) = 0
                         /\ CallsOn(p, TransportCalls) = 0

\* Two matched players, one Playing and one Paused: the first was paused and
\* the second was played.
C14_Witness ==
    /\ BroadcastDone
    /\ cmd.op = "Toggle"
    /\ \E p, q \in RankedRunning :
        /\ StatusReadOf(p) = "Playing"
        /\ StatusReadOf(q) = "Paused"
        /\ CallsOn(p, {"pause"}) = 1
        /\ CallsOn(q, {"play"}) = 1

(***************************************************************************)
(* C15.  Seek with a missing track reference.                              *)
(***************************************************************************)
\* The absolute seeks player p has received, as the positions asked for.
SetPositionsOf(p) ==
    {i \in 1..Len(log) : log[i].player = p /\ log[i].call = "set_position"}

\* C15 (as claimed): after a Seek in which no call fails the result is true,
\* every matched player had its metadata read once, one that exposed no track
\* reference received no absolute seek, and one that exposed a track reference
\* received exactly one absolute seek, to the requested position.
C15_SeekSkipsSilently ==
    (BroadcastDone /\ cmd.op = "Seek") =>
        /\ result = Ok(TRUE)
        /\ exitCode = 0
        /\ \A p \in RankedRunning :
              /\ CallsOn(p, {"get_metadata"}) = 1
              /\ IF NoTrackReference(p)
                 THEN SetPositionsOf(p) = {}
                 ELSE /\ Cardinality(SetPositionsOf(p)) = 1
                      /\ \A i \in SetPositionsOf(p) : log[i].arg = cmd.seconds

(***************************************************************************)
(* C16.  Read-only actions have no transport effect.                       *)
(***************************************************************************)
ReadOnlyActions == {"Status", "Player", "Url", "Favorite"}

\* The calls that only read from a player.
QueryCalls == {"get_playback_status", "get_metadata"}

\* C16: during a Status, Player, Url or Favorite invocation no play, pause,
\* next, previous, relative seek or absolute seek is ever issued: the only
\* calls made on a player are reads of its playback status and metadata, and
\* Player and Favorite make no call on any player at all.
C16_ReadOnlyNoTransport ==
    cmd.action \in ReadOnlyActions =>
        \A i \in 1..Len(log) :
            /\ log[i].call \notin TransportCalls
            /\ log[i].player # 0 =>
                  /\ log[i].call \in QueryCalls
                  /\ cmd.action \in {"Status", "Url"}

\* A Status that read two players and printed the line of the second: the two
\* status reads and the metadata read are all the calls they received.
C16_Witness ==
    /\ Exited
    /\ cmd.action = "Status"
    /\ result = Ok(TRUE)
    /\ \E p, q \in Instances :
        /\ p # q
        /\ CallsOn(p, {"get_playback_status"}) = 1
        /\ CallsOn(q, QueryCalls) = 2
        /\ CallsOn(p, TransportCalls) = 0
        /\ CallsOn(q, TransportCalls) = 0

(***************************************************************************)
(* C17.  Bus initialisation is checked before every action.                *)
(***************************************************************************)
BusInitFailed == Len(log) > 0 /\ ~log[1].ok

\* C17: connecting to the bus is the first call of every invocation and is
\* made once; if it fails it is the only call made (no player is enumerated,
\* queried or commanded and the favourites client is not contacted), nothing
\* is written to standard output, and the process exits with code 8, whatever
\* the action, Favorite with always set included.
C17_BusInitFirst ==
    /\ \A i \in 1..Len(log) : (log[i].call = "PlayerFinder::new") <=> (i = 1)
    /\ BusInitFailed =>
          /\ Len(log) = 1
          /\ stdout = <<>>
          /\ pc \in {"returned", "exited"}
          /\ result = PlayingError("DBus", 8)
          /\ Exited => /\ exitCode = 8
                       /\ stderr = << <<"error", "DBus">> >>

\* Favorite with always set, Spotify running, and the connection failed.
C17_Witness ==
    /\ Exited
    /\ cmd.action = "Favorite"
    /\ cmd.always
    /\ ~NoSpotifyRunning
    /\ BusInitFailed
    /\ exitCode = 8

(***************************************************************************)
(* C18.  At most once under a changing bus.                                *)
(***************************************************************************)
FindAllCalls == Cardinality({i \in 1..Len(log) : log[i].call = "find_all"})

\* C18: on a bus where players join and leave while the ranking is walked,
\* the players are enumerated once per ranking entry (never more than five
\* times, and five times in a run that ends with true), and no instance
\* receives more than one transport call in one invocation; an instance that
\* received one has a ranked identity.
C18_AtMostOnce ==
    cmd.action = "Operation" =>
        /\ FindAllCalls <= Len(ranking)
        /\ pc \in {"ranking", "visit", "toggle_cmd", "set_position"} => FindAllCalls <= rank
        /\ (Exited /\ result = Ok(TRUE)) => FindAllCalls = Len(ranking)
        /\ \A p \in Instances :
              /\ CallsOn(p, TransportCalls) <= 1
              /\ CallsOn(p, TransportCalls) = 1 => players[p] \in RankedStrings

\* Between two enumerations a player left after it was served and another
\* joined and was served in a later pass: each received one call.
C18_Witness ==
    /\ Exited
    /\ cmd.action = "Operation"
    /\ NoFailure
    /\ result = Ok(TRUE)
    /\ \E p \in churn.left, q \in churn.arrived :
        /\ p # q
        /\ CallsOn(p, TransportCalls) = 1
        /\ CallsOn(q, TransportCalls) = 1
====
